---- MODULE Spec2Model ----
(***************************************************************************)
(* watchless: periodic execution of a command with a paged, scrollable     *)
(* display of its output (src/watchless.py).  The module models the        *)
(* WatchLess object, the tick loop of WatchLess.run and the curses pads    *)
(* the loop writes to.                                                     *)
(*                                                                         *)
(* Time is an integer clock.  A line of output is a sequence of character  *)
(* codes (printable ASCII plus the terminating newline); a pad cell is a   *)
(* curses chtype: the character in the low 8 bits, the attributes above.   *)
(* An optional value (Python's None) is the empty sequence, a present      *)
(* value v is <<v>>.                                                       *)
(***************************************************************************)
EXTENDS Integers, Sequences, FiniteSets, TLC

VARIABLES
    \* configuration, fixed by WatchLess.__init__
    command, interval, precise_mode, differences, c_diff, beep, errexit, header,
    shell, args,
    \* fields of the WatchLess object
    process, next_run, header_time, dirty,
    screen_height, screen_width, content_height, content_width,
    page_height, page_width, x, y, bottom, right, pad,
    \* locals of WatchLess.run
    newpad, new_h, new_w, cur_l, first_run, rcode, output, pc,
    \* environment: clock, terminal (the size curses knows, the new size of a
    \* resize it has not yet taken, a KEY_RESIZE left by a refresh), the child
    \* process, the user, the bell
    now, term, winch, resize_key, child, nchildren, keys_left, beeps, exit_code,
    \* history of the runs
    nstarted, nfinished, first_start, last_start, last_finish, cur_out, outs,
    emitted

vars == << command, interval, precise_mode, differences, c_diff, beep, errexit, header,
           shell, args,
           process, next_run, header_time, dirty,
           screen_height, screen_width, content_height, content_width,
           page_height, page_width, x, y, bottom, right, pad,
           newpad, new_h, new_w, cur_l, first_run, rcode, output, pc,
           now, term, winch, resize_key, child, nchildren, keys_left, beeps, exit_code,
           nstarted, nfinished, first_start, last_start, last_finish,
           cur_out, outs, emitted >>

config == << command, interval, precise_mode, differences, c_diff, beep, errexit, header,
             shell, args >>

----------------------------------------------------------------------------
(* Bounds of the model.                                                    *)

\* the clock runs from StartTime to MaxTime
MaxTime == 5
\* runs started in one session
MaxRuns == 3
\* keys (and resize events) the user sends in one session
MaxKeys == 2
\* tokens of a command line, characters of a token
MaxTokens == 2
MaxTokenLen == 2

----------------------------------------------------------------------------
(* curses values.                                                          *)

\* The attribute bits of a chtype, as a set.  "other" stands for the
\* attribute bits besides these two (colour pair, A_INVIS, A_BLINK, ...).
A_NORMAL == { }
A_STANDOUT == { "A_STANDOUT" }
A_ALTCHARSET == { "A_ALTCHARSET" }
AllAttrs == { "A_STANDOUT", "A_ALTCHARSET", "other" }

\* the blank a new, resized or cleared pad is filled with: a space
Blank == 32
\* newline
NL == 10
\* 0xFF
CharMask == 255

\* a chtype: the character (the low 8 bits) and the attributes (the rest)
Cell(c, attr) == [ch |-> c, attr |-> attr]

\* what inch() returns for a position outside the pad: (chtype)ERR, all bits set
ERR == Cell(CharMask, AllAttrs)

\* temp & 0xFF
CharOf(v) == v.ch

\* temp & ~0xFF
AttrOf(v) == v.attr

None == << >>
Some(v) == << v >>
IsNone(o) == o = << >>
Val(o) == o[1]

Max(a, b) == IF a >= b THEN a ELSE b
Min(a, b) == IF a <= b THEN a ELSE b

----------------------------------------------------------------------------
(* Pads: a pad is a sequence of rows, a row a sequence of cells.  Row and  *)
(* column numbers are those of curses (from 0).                            *)

PadH(p) == Len(p)
PadW(p) == Len(p[1])

\* curses.newpad(h, w)
NewPad(h, w) == [r \in 1..h |-> [c \in 1..w |-> Cell(Blank, A_NORMAL)]]

\* pad.resize(h, w): the overlap is kept, new cells are blank
Resize(p, h, w) ==
    [r \in 1..h |-> [c \in 1..w |->
        IF r <= PadH(p) /\ c <= PadW(p) THEN p[r][c] ELSE Cell(Blank, A_NORMAL)]]

\* a clear() that leaves the pad as it is
ClearNothing(p) == p

\* pad.clear(): same size, all blank
Clear(p) == NewPad(PadH(p), PadW(p))

\* an inch() that reads a blank outside the pad
InchBlankOutside(p, row, col) ==
    IF row >= 0 /\ row < PadH(p) /\ col >= 0 /\ col < PadW(p)
    THEN p[row + 1][col + 1]
    ELSE Cell(Blank, A_NORMAL)

\* pad.inch(row, col): the cell, or ERR outside the pad (no exception)
Inch(p, row, col) ==
    IF row >= 0 /\ row < PadH(p) /\ col >= 0 /\ col < PadW(p)
    THEN p[row + 1][col + 1]
    ELSE ERR

\* pad.addch(row, col, c, attr).  A newline clears the row from col on and
\* drops its attributes, unless A_ALTCHARSET is among them: then it is
\* stored as a cell like any other character.
AddCh(p, row, col, c, attr) ==
    IF c = NL /\ ~(A_ALTCHARSET \subseteq attr)
    THEN [p EXCEPT ![row + 1] =
            [k \in 1..PadW(p) |->
                IF k >= col + 1 THEN Cell(Blank, A_NORMAL) ELSE p[row + 1][k]]]
    ELSE [p EXCEPT ![row + 1][col + 1] = Cell(c, attr)]

\* pad.addstr(row, 0, line): the characters one by one, no attributes
RECURSIVE AddStrFrom(_, _, _, _)
AddStrFrom(p, row, line, i) ==
    IF i > Len(line) THEN p
    ELSE AddStrFrom(AddCh(p, row, i - 1, line[i], A_NORMAL), row, line, i + 1)

AddStr(p, row, line) == AddStrFrom(p, row, line, 1)

\* cells of a pad that carry the highlight attribute, as (row, col) pairs
Highlighted(p) ==
    { rc \in (0..(PadH(p) - 1)) \X (0..(PadW(p) - 1)) :
        A_STANDOUT \subseteq p[rc[1] + 1][rc[2] + 1].attr }

----------------------------------------------------------------------------
(* The environment: the commands watched and what a run of each can        *)
(* print, the terminal sizes, the keys.                                    *)

\* the clock's first value: time.time() is a positive number
StartTime == 1

\* terminals (screen.getmaxyx()) on which the header and the page fit
TermSizes == { [h |-> 4, w |-> 2], [h |-> 5, w |-> 3] }

Keys == { "none", "up", "down", "npage", "ppage", "left", "right", "end",
          "home", "cleft", "cright", "resize", "other" }

Run(out, err, rc) == [out |-> out, err |-> err, rc |-> rc]

\* What one run of the command writes to its standard output and standard
\* error, and its return code.
\*   "tick":   the same line every time, return code 0
\*   "page":   three lines, the first of them long, or one short line: more
\*             or less than a page of the terminals above
\*   "status": like tests/randomerror.py, a line on stdout and return code
\*             0, or a line on stderr and return code 1
\*   "grow":   lines of growing and of shrinking length, more and fewer
\*             lines than the run before
\*   "text":   output that changes from run to run in characters, line
\*             lengths and number of lines (tests/increasedoutput.py,
\*             tests/reducedoutput.py); the return code is 0
Outputs(cmd) ==
    IF cmd = "tick" THEN { Run(<< <<65, NL>> >>, << >>, 0) }
    ELSE IF cmd = "page"
    THEN { Run(<< <<65, 66, 65, NL>>, <<65, NL>>, <<66, NL>> >>, << >>, 0),
           Run(<< <<65, NL>> >>, << >>, 0) }
    ELSE IF cmd = "status"
    THEN { Run(<< <<65, NL>> >>, << >>, 0),
           Run(<< >>, << <<66, NL>> >>, 1),
           Run(<< <<65, 66, NL>>, <<65, NL>> >>, << <<66, NL>> >>, 1) }
    ELSE IF cmd = "grow"
    THEN { Run(<< <<65, NL>>, <<65, 66, NL>> >>, << >>, 0),
           Run(<< <<65, 66, NL>>, <<66, NL>>, <<65, NL>> >>, << >>, 0),
           Run(<< <<66, NL>> >>, << >>, 0) }
    ELSE { Run(<< <<65, 66>> >>, << >>, 0),
           Run(<< <<65, NL>> >>, << >>, 0),
           Run(<< <<66, 66>> >>, << >>, 0),
           Run(<< <<65, NL>>, <<Blank, NL>>, <<Blank, NL>> >>, << >>, 0),
           Run(<< >>, << >>, 0) }

NoChild == [phase |-> "none", out |-> << >>, err |-> << >>, rc |-> 0]

\* The orders in which a child can write the lines of a run: the lines of
\* each stream in their order, the two streams interleaved in any way.  An
\* entry names the stream and holds the line.
CountOf(tags, s, i) == Cardinality({ k \in 1..i : tags[k] = s })

Emissions(o) ==
    LET n == Len(o.out) + Len(o.err)
    IN  { [i \in 1..n |->
             [stream |-> tg[i],
              line   |-> IF tg[i] = "out" THEN o.out[CountOf(tg, "out", i)]
                         ELSE o.err[CountOf(tg, "err", i)]]] :
          tg \in { t \in [1..n -> {"out", "err"}] : CountOf(t, "out", n) = Len(o.out) } }

----------------------------------------------------------------------------
(* WatchLess.calculate_sizes and the pieces of process_command and run     *)
(* that decide the claims.                                                 *)

\* self.content_y, set once in __init__
content_y == IF header THEN 2 ELSE 0

\* a calculate_sizes that floors right and bottom at 0
CalculateSizesFloored(t, ch, cw) ==
    [ screen_height |-> t.h - 1,
      screen_width  |-> t.w - 1,
      page_height   |-> (t.h - 1) - content_y,
      page_width    |-> t.w - 1,
      right         |-> Max(cw - (t.w - 1), 0),
      bottom        |-> Max(ch - ((t.h - 1) - content_y), 0) ]

\* calculate_sizes: the six fields it assigns, from the terminal size t and
\* the content size (ch, cw)
CalculateSizes(t, ch, cw) ==
    [ screen_height |-> t.h - 1,
      screen_width  |-> t.w - 1,
      page_height   |-> (t.h - 1) - content_y,
      page_width    |-> t.w - 1,
      right         |-> cw - (t.w - 1),
      bottom        |-> ch - ((t.h - 1) - content_y) ]

\* a clamp that forgets the lower limit
ClampNoFloor(v, limit) == Min(v, limit)

\* max(min(v, limit), 0)
Clamp(v, limit) == Max(Min(v, limit), 0)

\* a start that does not look at the run in progress
NotRunningIgnored == TRUE

\* if self._process is None
NotRunning == ~process

\* a start that waits one more interval after the scheduled time
TimeToRunLate(t) == IsNone(next_run) \/ t >= Val(next_run) + interval

\* self.next_run is None or t >= self.next_run
TimeToRun(t) == IsNone(next_run) \/ t >= Val(next_run)

\* a schedule counted from the actual start instead of the scheduled one
NextRunAtStartFromNow(t) == t + interval

\* precise mode, at the start of a run: (self.next_run or t) + self.interval
NextRunAtStart(t) ==
    (IF IsNone(next_run) \/ Val(next_run) = 0 THEN t ELSE Val(next_run)) + interval

\* a finish that schedules the next run without the interval
NextRunAtFinishNoGap(t) == t

\* gap mode, at the finish of a run: time.time() + self.interval
NextRunAtFinish(t) == t + interval

\* a diff that does not spare the first run
DoDiffFirstRunToo == differences

\* if self.differences and not first_run
DoDiff == differences /\ ~first_run

\* the character-by-character branch: one line diffed against the displayed
\* pad old and added to the new pad np at row `row`
RECURSIVE DiffLineFrom(_, _, _, _, _, _)
DiffLineFrom(np, old, row, line, cum, i) ==
    IF i > Len(line) THEN np
    ELSE LET temp  == Inch(old, row, i - 1)
             attr0 == IF cum THEN AttrOf(temp) ELSE A_NORMAL
             c     == line[i]
             oldc  == CharOf(temp)
             attr  == IF c # oldc THEN attr0 \cup A_STANDOUT ELSE attr0
         IN  DiffLineFrom(AddCh(np, row, i - 1, c, attr), old, row, line, cum, i + 1)

DiffLine(np, old, row, line, cum) == DiffLineFrom(np, old, row, line, cum, 1)

\* a read that puts the lines of the standard error first
GatherErrFirst(out, err) == err \o out

\* output = stdout.readlines(); output.extend(stderr.readlines())
Gather(out, err) == out \o err

\* a beep only when the loop goes on
BeepsUnlessExit(rc) == rc # 0 /\ beep /\ ~errexit

\* if rcode != 0: if self.beep: the bell
Beeps(rc) == rc # 0 /\ beep

\* an exit-on-error that never exits
ExitOnErrorNever(rc) == FALSE

\* if rcode != 0: ... if self.errexit: break
ExitOnError(rc) == rc # 0 /\ errexit

\* a switch of the pads at every finish, the one that ends the loop too
SwapsAtEveryFinish == ~IsNone(rcode)

\* a switch of the pads in every tick
SwapsEveryTick == IsNone(rcode) \/ ~ExitOnError(Val(rcode))

\* whether the tick reaches "Switch the pads over": the process has
\* finished and the loop was not left by the break before it
Swaps == ~IsNone(rcode) /\ ~ExitOnError(Val(rcode))

\* the exit status of the program when an exception leaves run(): the
\* interpreter prints the traceback and exits with 1
ErrorStatus == 1

\* The exit status of the program once run() has returned, by the break or
\* by the caught KeyboardInterrupt: curses.wrapper returns and the script
\* ends without a call of sys.exit.
ExitStatus == 0

\* a width that grows by doubling
NewWidthDoubling(w, n) == IF n > w THEN Max(w + w, n) ELSE w

\* the width of the new pad's content after a line of length n
NewWidth(w, n) == IF n > w THEN n ELSE w

\* for line in output: st holds newpad, new_w and cur_l; h is new_h
RECURSIVE AddLines(_, _, _, _, _, _, _)
AddLines(st, lines, h, old, diff, cum, i) ==
    IF i > Len(lines) THEN st
    ELSE LET line == lines[i]
             w1   == NewWidth(st.w, Len(line))
             np1  == IF Len(line) > st.w THEN Resize(st.np, h + 1, w1 + 1) ELSE st.np
             np2  == IF diff THEN DiffLine(np1, old, st.l, line, cum)
                     ELSE AddStr(np1, st.l, line)
         IN  AddLines([np |-> np2, w |-> w1, l |-> st.l + 1],
                      lines, h, old, diff, cum, i + 1)

\* if output: the new pad, new_h, new_w and cur_l after the tick's output
AddOutput(lines) ==
    IF lines = << >>
    THEN [np |-> newpad, w |-> new_w, l |-> cur_l, h |-> new_h]
    ELSE LET h  == new_h + Len(lines)
             st == AddLines([np |-> Resize(newpad, h + 1, new_w + 1),
                             w |-> new_w, l |-> cur_l],
                            lines, h, pad, DoDiff, c_diff, 1)
         IN  [np |-> st.np, w |-> st.w, l |-> st.l, h |-> h]

----------------------------------------------------------------------------
(* WatchLess.__init__: the choice of the shell mode.  A token is a         *)
(* sequence of character codes; what Popen is given is the list of tokens  *)
(* or a single string.                                                     *)

\* '*', '|', '&', '(', '[', ' '
shell_chars == { 42, 124, 38, 40, 91, 32 }

TokenList(toks) == [kind |-> "list", v |-> toks]
String(cs) == [kind |-> "str", v |-> cs]

\* ' '.join(command)
RECURSIVE Join(_)
Join(toks) ==
    IF Len(toks) = 1 THEN toks[1]
    ELSE toks[1] \o << Blank >> \o Join(Tail(toks))

\* any(char in command[0] for char in shell_chars)
NeedsShell(tok) == \E i \in 1..Len(tok) : tok[i] \in shell_chars

\* a guess that looks for the special characters in every token
InferShellAnyToken(toks) == \E k \in 1..Len(toks) : NeedsShell(toks[k])

\* if shell is None: more than one token, no shell; one token, by its
\* characters
InferShell(toks) == IF Len(toks) > 1 THEN FALSE ELSE NeedsShell(toks[1])

\* self.shell and self.command for the parameters command (a list of
\* tokens) and shell (None, or True or False)
ShellMode(toks, sh) == IF IsNone(sh) THEN InferShell(toks) ELSE Val(sh)

PopenArgs(toks, sh) ==
    IF IsNone(sh)
    THEN IF InferShell(toks) THEN String(toks[1]) ELSE TokenList(toks)
    ELSE IF Val(sh) THEN String(Join(toks)) ELSE TokenList(toks)

\* the characters the command lines are made of: 'a', '|', ' '
TokenChars == { 97, 124, Blank }

Tokens == UNION { [1..n -> TokenChars] : n \in 1..MaxTokenLen }

\* the command lines: one token or more (from_arguments refuses none)
CommandLines == UNION { [1..n -> Tokens] : n \in 1..MaxTokens }

\* the command line of the commands watched below: one plain token
CommandLine(cmd) == << << 97 >> >>

----------------------------------------------------------------------------
(* The state after construction and the start of run(): both pads are 1x1, *)
(* the sizes have been calculated once, no command has run.                *)

InitObject(cmd, ival, precise, diffmode, bp, ee, hdr, t, keys, t0) ==
    /\ command = cmd
    /\ interval = ival
    /\ precise_mode = precise
    /\ differences = (diffmode # "none")
    /\ c_diff = (diffmode = "cumulative")
    /\ beep = bp
    /\ errexit = ee
    /\ header = hdr
    /\ process = FALSE
    /\ next_run = None
    /\ header_time = None
    /\ dirty = FALSE
    /\ term = t
    /\ winch = None
    /\ resize_key = FALSE
    /\ content_height = 0
    /\ content_width = 0
    /\ LET s == CalculateSizes(t, 0, 0)
       IN  /\ screen_height = s.screen_height
           /\ screen_width = s.screen_width
           /\ page_height = s.page_height
           /\ page_width = s.page_width
           /\ right = s.right
           /\ bottom = s.bottom
    /\ x = 0
    /\ y = 0
    /\ pad = NewPad(1, 1)
    /\ newpad = NewPad(1, 1)
    /\ new_h = 0
    /\ new_w = 0
    /\ cur_l = 0
    /\ first_run = TRUE
    /\ rcode = None
    /\ output = << >>
    /\ now = t0
    /\ child = NoChild
    /\ nchildren = 0
    /\ keys_left = keys
    /\ beeps = 0
    /\ exit_code = None
    /\ nstarted = 0
    /\ nfinished = 0
    /\ first_start = None
    /\ last_start = None
    /\ last_finish = None
    /\ cur_out = << >>
    /\ outs = << >>
    /\ emitted = << >>

InitState(cmd, ival, precise, diffmode, bp, ee, hdr, t, keys, t0) ==
    /\ InitObject(cmd, ival, precise, diffmode, bp, ee, hdr, t, keys, t0)
    /\ shell = Some(ShellMode(CommandLine(cmd), None))
    /\ args = PopenArgs(CommandLine(cmd), None)
    /\ pc = "keys"

----------------------------------------------------------------------------
(* The tick loop of run().  pc is the loop's position:                     *)
(*   "new"   before WatchLess.__init__ (only where the constructor is the  *)
(*           subject)                                                      *)
(*   "keys"  before self.handle_keys()                                     *)
(*   "cmd"   before self.process_command()                                 *)
(*   "body"  before the handling of the output and of the return code      *)
(*   "draw"  before the refresh and the sleep                              *)
(*   "done"  run() has returned and the program has exited                 *)

history == << nstarted, nfinished, first_start, last_start, last_finish, cur_out, outs,
             emitted >>
sizes == << screen_height, screen_width, page_height, page_width, right, bottom >>
locals == << newpad, new_h, new_w, cur_l, first_run >>
tty == << term, winch, resize_key >>

\* a paging that moves by one row
NextYNoPaging(key) ==
    CASE key = "up"    -> y - 1
      [] key = "down"  -> y + 1
      [] key = "npage" -> y + 1
      [] key = "ppage" -> y - 1
      [] key = "end"   -> bottom
      [] key = "home"  -> 0
      [] OTHER         -> y

\* self.y after the key
NextY(key) ==
    CASE key = "up"    -> y - 1
      [] key = "down"  -> y + 1
      [] key = "npage" -> y + page_height
      [] key = "ppage" -> y - page_height
      [] key = "end"   -> bottom
      [] key = "home"  -> 0
      [] OTHER         -> y

\* self.x after the key
NextX(key) ==
    CASE key = "left"   -> x - 1
      [] key = "right"  -> x + 1
      [] key = "cleft"  -> x - page_width
      [] key = "cright" -> x + page_width
      [] OTHER          -> x

\* a dirty flag that only a resize sets
MarksDirtyOnResize(key) == key = "resize"

\* the branches of handle_keys that set self.dirty: all but no key and a
\* key that is not handled
MarksDirty(key) == key \notin {"none", "other"}

\* the branch of handle_keys that calls calculate_sizes
Recalculates(key) == key = "resize"

\* handle_keys with the pending key `key` ("none": getch() returns -1) and
\* the terminal size t that getmaxyx() reports from this getch() on.
\* getch() returns KEY_RESIZE when the terminal has been resized and curses
\* has not yet taken the new size (it takes it now), or when a refresh has
\* taken it and left the key behind; it returns it before any other key.
HandleKey(key, t) ==
    /\ pc = "keys"
    /\ (key = "resize") <=> (~IsNone(winch) \/ resize_key)
    /\ t = IF IsNone(winch) THEN term ELSE Val(winch)
    /\ key \in {"none", "resize"} => keys_left' = keys_left
    /\ key \notin {"none", "resize"} => keys_left > 0 /\ keys_left' = keys_left - 1
    /\ term' = t
    /\ winch' = None
    /\ resize_key' = FALSE
    /\ y' = NextY(key)
    /\ x' = NextX(key)
    /\ dirty' = IF MarksDirty(key) THEN TRUE ELSE dirty
    /\ IF Recalculates(key)
       THEN LET s == CalculateSizes(t, content_height, content_width)
            IN  /\ screen_height' = s.screen_height
                /\ screen_width' = s.screen_width
                /\ page_height' = s.page_height
                /\ page_width' = s.page_width
                /\ right' = s.right
                /\ bottom' = s.bottom
       ELSE UNCHANGED sizes
    /\ pc' = "cmd"
    /\ UNCHANGED << config, process, next_run, header_time, content_height,
                    content_width, pad, locals, rcode, output, now, child,
                    nchildren, beeps, exit_code, history >>

\* handle_keys: one pending key, or none
HandleKeys == \E key \in Keys, t \in TermSizes : HandleKey(key, t)

\* process_command, not running: start the command if it is time to
StartOrWait ==
    /\ NotRunning
    /\ IF TimeToRun(now)
       THEN /\ nstarted < MaxRuns
            /\ process' = TRUE
            /\ child' = [NoChild EXCEPT !.phase = "running"]
            /\ nchildren' = nchildren + 1
            /\ next_run' = IF precise_mode THEN Some(NextRunAtStart(now)) ELSE next_run
            /\ nstarted' = nstarted + 1
            /\ first_start' = IF IsNone(first_start) THEN Some(now) ELSE first_start
            /\ last_start' = Some(now)
       ELSE UNCHANGED << process, child, nchildren, next_run, nstarted,
                         first_start, last_start >>
    /\ rcode' = None
    /\ output' = << >>
    /\ UNCHANGED << header_time, nfinished, last_finish, cur_out, outs, emitted >>

\* process_command, running: readlines() on the child's standard output and
\* then on its standard error return at the end of each stream, so the call
\* returns only once the child has closed both; poll() then tells whether
\* the child has exited yet.
Poll ==
    /\ ~NotRunning
    /\ child.phase = "eof"
    /\ output' = Gather(child.out, child.err)
    /\ cur_out' = cur_out \o Gather(child.out, child.err)
    /\ \E exited \in BOOLEAN :
        IF exited
        THEN /\ rcode' = Some(child.rc)
             /\ process' = FALSE
             /\ child' = NoChild
             /\ nchildren' = nchildren - 1
             /\ header_time' = Some(now)
             /\ next_run' = IF ~precise_mode THEN Some(NextRunAtFinish(now)) ELSE next_run
             /\ nfinished' = nfinished + 1
             /\ last_finish' = Some(now)
        ELSE /\ rcode' = None
             /\ child' = [child EXCEPT !.out = << >>, !.err = << >>]
             /\ UNCHANGED << process, nchildren, header_time, next_run,
                             nfinished, last_finish >>
    /\ UNCHANGED << nstarted, first_start, last_start, outs, emitted >>

ProcessCommand ==
    /\ pc = "cmd"
    /\ IF NotRunning THEN StartOrWait ELSE Poll
    /\ pc' = "body"
    /\ UNCHANGED << config, dirty, sizes, content_height, content_width, x, y,
                    pad, locals, now, tty, keys_left, beeps, exit_code >>

\* run(), from "if output:" to the end of "if rcode is not None:"
Body ==
    /\ pc = "body"
    /\ LET a == AddOutput(output)
       IN  IF Swaps
           THEN LET s == CalculateSizes(term, a.h, a.w)
                IN  /\ pad' = a.np
                    /\ newpad' = Clear(pad)
                    /\ content_width' = a.w
                    /\ content_height' = a.h
                    /\ screen_height' = s.screen_height
                    /\ screen_width' = s.screen_width
                    /\ page_height' = s.page_height
                    /\ page_width' = s.page_width
                    /\ right' = s.right
                    /\ bottom' = s.bottom
                    /\ dirty' = TRUE
                    /\ first_run' = FALSE
                    /\ new_w' = 0
                    /\ new_h' = 0
                    /\ cur_l' = 0
           ELSE /\ newpad' = a.np
                /\ new_h' = a.h
                /\ new_w' = a.w
                /\ cur_l' = a.l
                /\ UNCHANGED << pad, content_height, content_width, sizes, dirty,
                                first_run >>
    /\ beeps' = IF ~IsNone(rcode) /\ Beeps(Val(rcode)) THEN beeps + 1 ELSE beeps
    /\ IF ~IsNone(rcode) /\ ExitOnError(Val(rcode))
       THEN \* break: run() returns, the program ends
            /\ pc' = "done"
            /\ exit_code' = Some(ExitStatus)
       ELSE /\ pc' = "draw"
            /\ UNCHANGED exit_code
    /\ IF IsNone(rcode)
       THEN UNCHANGED << outs, cur_out >>
       ELSE /\ outs' = Append(outs, cur_out)
            /\ cur_out' = << >>
    /\ UNCHANGED << config, process, next_run, header_time, x, y, rcode, output,
                    now, tty, child, nchildren, keys_left, nstarted, nfinished,
                    first_start, last_start, last_finish, emitted >>

\* self.pad.refresh(y, x, content_y, 0, screen_height, screen_width) on a
\* terminal of size t: curses trims the lower right corner of the rectangle
\* to the pad and fails (curses.error) if the corner still is outside the
\* terminal
PadRefreshFails(t, newx, newy) ==
    \/ Min(screen_height, content_y + (PadH(pad) - 1) - newy) >= t.h
    \/ Min(screen_width, (PadW(pad) - 1) - newx) >= t.w

\* run(), "if self.dirty:" and the sleep.  self.screen.refresh() takes the
\* new size of a terminal that has been resized since the last getch() and
\* leaves KEY_RESIZE for the next getch(); the pad is then refreshed with the
\* sizes calculate_sizes has last set.  The curses.error of a failed refresh
\* is not caught: run() is left by it.
Redraw ==
    /\ pc = "draw"
    /\ IF dirty
       THEN LET t == IF IsNone(winch) THEN term ELSE Val(winch)
            IN  /\ y' = Clamp(y, bottom)
                /\ x' = Clamp(x, right)
                /\ term' = t
                /\ winch' = None
                /\ resize_key' = (resize_key \/ ~IsNone(winch))
                /\ IF PadRefreshFails(t, Clamp(x, right), Clamp(y, bottom))
                   THEN /\ pc' = "done"
                        /\ exit_code' = Some(ErrorStatus)
                        /\ dirty' = dirty
                   ELSE /\ pc' = "keys"
                        /\ dirty' = FALSE
                        /\ UNCHANGED exit_code
       ELSE /\ pc' = "keys"
            /\ UNCHANGED << x, y, dirty, tty, exit_code >>
    /\ UNCHANGED << config, process, next_run, header_time, sizes, content_height,
                    content_width, pad, locals, rcode, output, now, child,
                    nchildren, keys_left, beeps, history >>

\* The user resizes the terminal (SIGWINCH).  curses takes the new size at
\* the next getch() or the next refresh of the screen, whichever comes
\* first, so the step is taken where one of the two is about to be called.
Sigwinch ==
    /\ pc = "keys" \/ (pc = "draw" /\ dirty)
    /\ IsNone(winch)
    /\ keys_left > 0
    /\ keys_left' = keys_left - 1
    /\ \E t \in TermSizes : t # term /\ winch' = Some(t)
    /\ UNCHANGED << config, process, next_run, header_time, dirty, sizes,
                    content_height, content_width, x, y, pad, locals, rcode,
                    output, pc, now, term, resize_key, child, nchildren, beeps,
                    exit_code, history >>

\* an interrupt that is held back while a child is running
KeyboardInterruptWhenIdle ==
    /\ pc # "done"
    /\ ~process
    /\ pc' = "done"
    /\ exit_code' = Some(ExitStatus)
    /\ UNCHANGED << config, process, next_run, header_time, dirty, sizes,
                    content_height, content_width, x, y, pad, locals, rcode,
                    output, now, tty, child, nchildren, keys_left, beeps, history >>

\* Ctrl-C at any point of the loop: except KeyboardInterrupt: pass
KeyboardInterrupt ==
    /\ pc # "done"
    /\ pc' = "done"
    /\ exit_code' = Some(ExitStatus)
    /\ UNCHANGED << config, process, next_run, header_time, dirty, sizes,
                    content_height, content_width, x, y, pad, locals, rcode,
                    output, now, tty, child, nchildren, keys_left, beeps, history >>

\* The clock advances.  The loop reads the clock only in process_command, so
\* the time that passes anywhere in a tick (its sleep included) or while
\* readlines() blocks is added where process_command is about to read it.
Tock ==
    /\ pc = "cmd"
    /\ now < MaxTime
    /\ now' = now + 1
    /\ UNCHANGED << config, process, next_run, header_time, dirty, sizes,
                    content_height, content_width, x, y, pad, locals, rcode,
                    output, pc, tty, child, nchildren, keys_left, beeps,
                    exit_code, history >>

\* The child writes its output, closes its streams and is about to exit.
\* The loop sees nothing of the child before it polls it, so the step is
\* taken where process_command is about to poll.
ChildWrites ==
    /\ pc = "cmd"
    /\ child.phase = "running"
    /\ \E o \in Outputs(command) :
        /\ child' = [phase |-> "eof", out |-> o.out, err |-> o.err, rc |-> o.rc]
        /\ emitted' \in Emissions(o)
    /\ UNCHANGED << config, process, next_run, header_time, dirty, sizes,
                    content_height, content_width, x, y, pad, locals, rcode,
                    output, pc, now, tty, nchildren, keys_left, beeps,
                    exit_code, nstarted, nfinished, first_start, last_start,
                    last_finish, cur_out, outs >>

\* WatchLess(command, shell=...): the constructor settles the shell mode and
\* the form of the command; shell and args hold the parameters before it
\* and the fields self.shell and self.command after it
Construct ==
    /\ pc = "new"
    /\ shell' = Some(ShellMode(args.v, shell))
    /\ args' = PopenArgs(args.v, shell)
    /\ pc' = "keys"
    /\ UNCHANGED << command, interval, precise_mode, differences, c_diff, beep,
                    errexit, header, process, next_run, header_time, dirty, sizes,
                    content_height, content_width, x, y, pad, locals, rcode,
                    output, now, tty, child, nchildren, keys_left, beeps,
                    exit_code, history >>

Next ==
    \/ HandleKeys
    \/ ProcessCommand
    \/ Body
    \/ Redraw
    \/ Sigwinch
    \/ KeyboardInterrupt
    \/ Tock
    \/ ChildWrites

----------------------------------------------------------------------------
(* Specifications: the same loop under different configurations.  Where    *)
(* the schedule is not the subject the interval is 1 and the clock starts  *)
(* late enough to leave just the time MaxRuns runs need.                   *)

LateStart == MaxTime - (MaxRuns - 1)

\* exit-on-error and beep, a command that may fail
Init ==
    \E ee \in BOOLEAN, bp \in BOOLEAN, precise \in BOOLEAN :
        InitState("status", 1, precise, "none", bp, ee, TRUE,
                  [h |-> 5, w |-> 3], 1, LateStart)

Spec == Init /\ [][Next]_vars

\* both timing modes, two intervals
InitSched ==
    \E precise \in BOOLEAN, ival \in {1, 2} :
        InitState("tick", ival, precise, "none", FALSE, FALSE, TRUE,
                  [h |-> 5, w |-> 3], 1, StartTime)

SpecSched == InitSched /\ [][Next]_vars

\* the three diff modes, output that changes from run to run
InitDiff ==
    \E diffmode \in {"none", "sequential", "cumulative"} :
        InitState("text", 1, FALSE, diffmode, FALSE, FALSE, TRUE,
                  [h |-> 5, w |-> 3], 1, LateStart)

SpecDiff == InitDiff /\ [][Next]_vars

\* with and without header, two terminals, content larger than the page
InitView ==
    \E hdr \in BOOLEAN, t \in TermSizes :
        InitState("page", 1, FALSE, "none", FALSE, FALSE, hdr, t, MaxKeys, LateStart)

SpecView == InitView /\ [][Next]_vars

\* no diff and sequential diff, lines of growing length
InitGrow ==
    \E diffmode \in {"none", "sequential"} :
        InitState("grow", 1, FALSE, diffmode, FALSE, FALSE, TRUE,
                  [h |-> 5, w |-> 3], 1, LateStart)

SpecGrow == InitGrow /\ [][Next]_vars

\* the constructor alone, for every command line and every shell parameter
InitShell ==
    \E toks \in CommandLines, sh \in { None, Some(TRUE), Some(FALSE) } :
        /\ InitObject("tick", 1, FALSE, "none", FALSE, FALSE, TRUE,
                      [h |-> 5, w |-> 3], 0, StartTime)
        /\ shell = sh
        /\ args = TokenList(toks)
        /\ pc = "new"

NextShell == Construct

SpecShell == InitShell /\ [][NextShell]_vars

\* the loop left to itself: no Ctrl-C, exit-on-error off, a command that
\* succeeds, both timing modes
InitLive ==
    \E precise \in BOOLEAN :
        InitState("tick", 1, precise, "none", FALSE, FALSE, TRUE,
                  [h |-> 5, w |-> 3], 1, LateStart)

NextLive ==
    \/ HandleKeys
    \/ ProcessCommand
    \/ Body
    \/ Redraw
    \/ Sigwinch
    \/ Tock
    \/ ChildWrites

\* The loop runs on as long as run() has not returned (its steps are taken
\* whenever they can be), a child that has been started closes its streams
\* and is found exited by one of the polls, and the clock goes on.
SpecLive ==
    /\ InitLive
    /\ [][NextLive]_vars
    /\ WF_vars(HandleKeys)
    /\ WF_vars(ProcessCommand)
    /\ WF_vars(Body)
    /\ WF_vars(Redraw)
    /\ WF_vars(ChildWrites)
    /\ SF_vars(ProcessCommand /\ nfinished' = nfinished + 1)
    /\ SF_vars(Tock)

----------------------------------------------------------------------------
(* The viewport.                                                           *)

\* C1: immediately after the clamp step of a redraw, 0 <= x <= right and
\* 0 <= y <= bottom, where right = max(content_width - page_width, 0) and
\* bottom = max(content_height - page_height, 0), whatever keys, resize
\* events and run completions came before.
C1_ClampedAfterRedraw ==
    [][ (pc = "draw" /\ dirty /\ pc' = "keys") =>
            /\ 0 <= x' /\ x' <= Max(content_width' - page_width', 0)
            /\ 0 <= y' /\ y' <= Max(content_height' - page_height', 0) ]_vars

\* C1 witness: after a redraw the view is scrolled to the bottom right
\* corner of content larger than the page
C1_Witness ==
    /\ pc = "keys"
    /\ x > 0 /\ x = content_width - page_width
    /\ y > 0 /\ y = content_height - page_height

----------------------------------------------------------------------------
(* The schedule.                                                           *)

\* C2: in both timing modes a run is started only while none is in
\* progress: at most one child process is running, and the runs started
\* are never more than one ahead of the runs finished.
C2_NoOverlap ==
    /\ nchildren <= 1
    /\ nstarted - nfinished \in {0, 1}
    /\ process <=> (nstarted = nfinished + 1)
    /\ process <=> (nchildren = 1 /\ child.phase # "none")

\* C2 witness: a second run is in progress after the first has finished
C2_Witness ==
    /\ process /\ nchildren = 1 /\ nstarted = 2 /\ nfinished = 1

\* C3: in gap mode next_run is the last finish time + interval from the
\* first finish on, and a run in progress has started no earlier than the
\* previous run's finish time + interval.
C3_GapMode ==
    ~precise_mode =>
        /\ nfinished = 0 => IsNone(next_run)
        /\ nfinished >= 1 => next_run = Some(Val(last_finish) + interval)
        /\ (process /\ nstarted >= 2) =>
                Val(last_start) >= Val(last_finish) + interval

\* C3 witness: a second run in gap mode with interval 2, started later than
\* the earliest time allowed
C3_Witness ==
    /\ ~precise_mode /\ interval = 2 /\ process /\ nstarted = 2
    /\ Val(last_start) > Val(last_finish) + interval

\* C4: in precise mode next_run is set when a run starts and is the first
\* start time + n * interval after the n-th start, whatever the run
\* durations and the times of the ticks; a finish leaves it alone.
C4_PreciseSchedule ==
    precise_mode =>
        IF nstarted = 0 THEN IsNone(next_run)
        ELSE next_run = Some(Val(first_start) + nstarted * interval)

\* C4 witness: the third run started later than its slot (the earlier runs
\* took longer than the interval), and the schedule still is on its grid
C4_Witness ==
    /\ precise_mode /\ nstarted = 3
    /\ Val(last_start) > Val(first_start) + 2 * interval
    /\ next_run = Some(Val(first_start) + 3 * interval)

\* C5: in precise mode, after a run that took longer than the interval, the
\* first call of process_command that finds no run in progress starts the
\* next run, and it moves next_run on by exactly one interval: no slot is
\* skipped.
C5_BackToBack ==
    [][ ( /\ precise_mode
          /\ pc = "cmd" /\ pc' = "body" /\ ~process
          /\ nfinished >= 1
          /\ Val(last_finish) - Val(last_start) > interval )
        => ( /\ process'
             /\ last_start' = Some(now)
             /\ nstarted' = nstarted + 1
             /\ next_run' = Some(Val(next_run) + interval) ) ]_vars

\* C5 witness: the first run took longer than the interval and the second
\* run started at the clock value at which the first finished
C5_Witness ==
    /\ precise_mode /\ process /\ nstarted = 2
    /\ Val(last_finish) - Val(first_start) > interval
    /\ Val(last_start) = Val(last_finish)

----------------------------------------------------------------------------
(* The diff.  outs holds what each finished run printed, oldest first.     *)
(* Without exit-on-error every finished run is swapped in, so the          *)
(* displayed pad shows the last entry of outs.                             *)

\* a line without its terminating newline
Printable(line) ==
    IF Len(line) > 0 /\ line[Len(line)] = NL
    THEN SubSeq(line, 1, Len(line) - 1)
    ELSE line

\* the canvas dimensions of an output: its lines, its longest line
OutH(o) == Len(o)
OutW(o) ==
    IF o = << >> THEN 0
    ELSE CHOOSE n \in { Len(o[i]) : i \in 1..Len(o) } :
            \A i \in 1..Len(o) : Len(o[i]) <= n

\* whether the output has a character (other than the newline) at (r, c)
HasChar(o, r, c) == r < Len(o) /\ c < Len(Printable(o[r + 1]))

\* the character a canvas of the output shows at (r, c): blank where the
\* output has none
CanvasChar(o, r, c) == IF HasChar(o, r, c) THEN o[r + 1][c + 1] ELSE Blank

Positions(o) == (0..(OutH(o) - 1)) \X (0..(OutW(o) - 1))

SameDims(o1, o2) == OutH(o1) = OutH(o2) /\ OutW(o1) = OutW(o2)

\* the positions at which two canvases of the same dimensions differ
DiffPositions(o1, o2) ==
    { rc \in Positions(o2) : CanvasChar(o1, rc[1], rc[2]) # CanvasChar(o2, rc[1], rc[2]) }

\* the positions at which the later output has a character and the earlier
\* output has none
NewCells(o1, o2) ==
    { rc \in Positions(o2) : HasChar(o2, rc[1], rc[2]) /\ ~HasChar(o1, rc[1], rc[2]) }

OutsidePad(p, rc) == rc[1] >= PadH(p) \/ rc[2] >= PadW(p)

LastOut == outs[Len(outs)]
PrevOut == outs[Len(outs) - 1]

\* C6: in every diff mode no cell of the pad displayed after the first run
\* is highlighted, and none of the new pad is while the first run's output
\* is added.
C6_FirstRunPlain ==
    /\ first_run => (Highlighted(newpad) = { } /\ Highlighted(pad) = { })
    /\ (Len(outs) = 1 /\ ~errexit) => Highlighted(pad) = { }

\* C6 witness: cumulative diff, the first run's three lines are displayed
C6_Witness ==
    /\ differences /\ c_diff /\ Len(outs) = 1 /\ ~first_run
    /\ content_height = 3 /\ pad[1][1] = Cell(65, A_NORMAL)

\* C7: sequential diff, two consecutive runs with canvases of the same
\* dimensions: the highlighted cells of the pad displayed after the later
\* run are exactly the positions at which the two canvases differ.
C7_SequentialExact ==
    ( /\ differences /\ ~c_diff /\ ~errexit
      /\ Len(outs) >= 2
      /\ SameDims(PrevOut, LastOut) )
    => Highlighted(pad) = DiffPositions(PrevOut, LastOut)

\* C8: cumulative diff, the first three runs with canvases of the same
\* dimensions: the highlighted cells of the pad displayed after run 3 are
\* exactly the positions at which runs 1 and 2 differ together with those
\* at which runs 2 and 3 differ.
C8_CumulativeUnion ==
    ( /\ differences /\ c_diff /\ ~errexit
      /\ Len(outs) = 3
      /\ SameDims(outs[1], outs[2]) /\ SameDims(outs[2], outs[3]) )
    => Highlighted(pad) = DiffPositions(outs[1], outs[2]) \cup DiffPositions(outs[2], outs[3])

\* C9 as claimed: with a diff mode on, every character of a later run at a
\* position where the run before had none is highlighted, a space too.
C9_NewCellsHighlighted ==
    (differences /\ ~errexit /\ Len(outs) >= 2)
    => \A rc \in NewCells(PrevOut, LastOut) : rc \in Highlighted(pad)

\* C9 as amended: such a character is highlighted if it is not a space; a
\* space is highlighted where the position is outside the pad displayed
\* before (the new pad, until the next output arrives, is that pad
\* cleared), and in sequential mode it is not highlighted inside it.
C9_NewCellsAmended ==
    (differences /\ ~errexit /\ Len(outs) >= 2)
    => \A rc \in NewCells(PrevOut, LastOut) :
        /\ CanvasChar(LastOut, rc[1], rc[2]) # Blank => rc \in Highlighted(pad)
        /\ (CanvasChar(LastOut, rc[1], rc[2]) = Blank /\ new_h = 0 /\ cur_out = << >>)
            => /\ OutsidePad(newpad, rc) => rc \in Highlighted(pad)
               /\ (~c_diff /\ ~OutsidePad(newpad, rc)) => rc \notin Highlighted(pad)

\* C9 witness: a run of one line followed by a run of three: the space in
\* the second row (inside the earlier pad) is plain, the space in the third
\* row (outside it) is highlighted, and so is a letter where the earlier
\* line had ended
C9_Witness ==
    /\ differences /\ Len(outs) >= 2 /\ new_h = 0 /\ cur_out = << >>
    /\ \/ /\ << 1, 0 >> \in NewCells(PrevOut, LastOut)
          /\ << 2, 0 >> \in NewCells(PrevOut, LastOut)
          /\ << 1, 0 >> \notin Highlighted(pad)
          /\ << 2, 0 >> \in Highlighted(pad)
          /\ OutsidePad(newpad, << 2, 0 >>)
          /\ pad[3][1].ch = Blank

----------------------------------------------------------------------------
(* Termination.                                                            *)

\* run() was left by the break of exit-on-error: the finished run was
\* counted in outs and the loop is done
ErrExited ==
    /\ pc = "done" /\ errexit
    /\ ~IsNone(rcode) /\ Val(rcode) # 0
    /\ Len(outs) = nfinished

\* C10 as claimed: with exit-on-error set, a run that exits non-zero ends
\* the program with exit code 1.
C10_ExitCodeOne == ErrExited => exit_code = Some(1)

\* C10 as amended: with exit-on-error set, the tick that sees a run exit
\* non-zero ends the loop, and the program ends with exit code 0.
C10_ExitCodeZero ==
    /\ [](ErrExited => exit_code = Some(0))
    /\ [][ (pc = "body" /\ pc' # "body" /\ errexit /\ ~IsNone(rcode) /\ Val(rcode) # 0)
            => (pc' = "done" /\ ~IsNone(exit_code')) ]_vars

\* C10 witness: the program has ended by exit-on-error
C10_Witness == ErrExited /\ exit_code = Some(0) /\ Val(rcode) = 1

\* C11: a user interrupt is possible at every position of the loop, with or
\* without a child running; the step that takes it ends the loop with exit
\* code 0 and leaves the child as it is (it is not waited for); once the
\* loop has ended no run is started.  (The interrupt is the step that ends
\* the loop without handling a finished run and without taking a new
\* terminal size.)
C11_InterruptStops ==
    /\ [](pc # "done" => ENABLED KeyboardInterrupt)
    /\ [][ (pc # "done" /\ pc' = "done" /\ outs' = outs /\ winch' = winch)
            => /\ exit_code' = Some(0)
               /\ child' = child /\ process' = process /\ nchildren' = nchildren
               /\ nstarted' = nstarted ]_vars
    /\ [][ pc = "done" => (nstarted' = nstarted /\ exit_code' = exit_code) ]_vars

\* C11 witness: the loop was interrupted during the second run, while the
\* child had not yet written anything, and the program has ended with 0
C11_Witness ==
    /\ pc = "done" /\ exit_code = Some(0)
    /\ process /\ child.phase = "running" /\ nstarted = 2 /\ nfinished = 1

----------------------------------------------------------------------------
(* Errors of the command.  The step of the loop that handles a finished    *)
(* run is the one that adds the run to outs.                               *)

\* C12: a run that exits non-zero rings the bell exactly when beep is set,
\* with and without exit-on-error, and nothing else rings it; with
\* exit-on-error the tick that sees the exit ends the loop and no run is
\* started after it; without it the loop goes on to the redraw with no run in
\* progress, and the next run is scheduled and started by the clock alone,
\* as after a zero exit.
C12_NonZeroExit ==
    /\ [][ (pc = "body" /\ outs' # outs)
            => /\ beeps' = beeps + (IF beep /\ Val(rcode) # 0 THEN 1 ELSE 0)
               /\ (Val(rcode) # 0 /\ errexit) => pc' = "done"
               /\ (Val(rcode) # 0 /\ ~errexit)
                    => (pc' = "draw" /\ ~process' /\ next_run' = next_run) ]_vars
    /\ [][ beeps' # beeps => (pc = "body" /\ outs' # outs) ]_vars
    /\ [][ (pc = "cmd" /\ process /\ ~process')
            => next_run' = (IF precise_mode THEN next_run ELSE Some(now + interval)) ]_vars
    /\ [][ (pc = "cmd" /\ pc' = "body" /\ ~process)
            => (process' <=> (IsNone(next_run) \/ now >= Val(next_run))) ]_vars
    /\ [][ (pc = "done" /\ errexit) => (nstarted' = nstarted /\ beeps' = beeps) ]_vars

\* C12 witness: without exit-on-error the first run failed, the bell rang
\* once and the second run is in progress
C12_Witness ==
    /\ ~errexit /\ beep /\ beeps = 1
    /\ Len(outs) = 1
    /\ process /\ nstarted = 2 /\ nfinished = 1

\* C13: while a run is in progress, process_command returns whether or not
\* the child has written or exited, so the tick goes on to the keys and
\* the redraw: whenever the loop is about to call it with a child running,
\* the call can complete.
C13_PollReturns == (pc = "cmd" /\ process) => ENABLED ProcessCommand

----------------------------------------------------------------------------
(* The order of the lines.  emitted holds the lines of the run that wrote  *)
(* last, in the order in which the child wrote them.                       *)

IsOut(e) == e.stream = "out"
IsErr(e) == e.stream = "err"

LinesOf(es) == [i \in 1..Len(es) |-> es[i].line]

\* the rows of the pad, from the top, show the lines
RowsShow(p, lines) ==
    \A i \in 1..Len(lines) : \A c \in 1..Len(Printable(lines[i])) :
        p[i][c].ch = lines[i][c]

\* the displayed pad is that of the run that wrote last: the run has been
\* handled and switched in, and no later run has written yet
ShowsEmitted ==
    /\ Len(outs) >= 1 /\ Len(outs) = nfinished
    /\ child.phase # "eof"
    /\ ~ErrExited

\* C14 as claimed: the rows of a run are in the order in which the child
\* wrote the lines, the lines of the two streams interleaved as written.
C14_ArrivalOrder ==
    ShowsEmitted => (LastOut = LinesOf(emitted) /\ RowsShow(pad, LinesOf(emitted)))

\* C14 as amended: the rows of a run are the lines of its standard output
\* in the order written, followed by the lines of its standard error in
\* the order written.
C14_StdoutThenStderr ==
    ShowsEmitted =>
        LET lines == LinesOf(SelectSeq(emitted, IsOut)) \o LinesOf(SelectSeq(emitted, IsErr))
        IN  LastOut = lines /\ RowsShow(pad, lines)

\* C14 witness: the child wrote a line to its standard error before two
\* lines to its standard output; the error line is on the third row
C14_Witness ==
    /\ ShowsEmitted /\ Len(emitted) = 3
    /\ IsErr(emitted[1]) /\ IsOut(emitted[2]) /\ IsOut(emitted[3])
    /\ pad[3][1].ch = emitted[1].line[1]
    /\ pad[1][1].ch = emitted[2].line[1]

----------------------------------------------------------------------------
(* The shell mode.                                                         *)

\* C15: the constructor, without a shell parameter, chooses no shell for a
\* command of several tokens and, for a command of one token, the shell if
\* and only if the token contains one of the shell characters; with a shell
\* parameter it takes the parameter.  With the shell the command becomes a
\* single string (the one token, or the tokens joined by spaces), without
\* it the list of tokens is kept as it is.
C15_ShellMode ==
    [][ (pc = "new" /\ pc' = "keys")
        => /\ (IsNone(shell) /\ Len(args.v) > 1) => shell' = Some(FALSE)
           /\ (IsNone(shell) /\ Len(args.v) = 1)
                => shell' = Some(\E i \in 1..Len(args.v[1]) : args.v[1][i] \in shell_chars)
           /\ ~IsNone(shell) => shell' = shell
           /\ IF Val(shell')
              THEN /\ args'.kind = "str"
                   /\ Len(args.v) = 1 => args'.v = args.v[1]
              ELSE args' = args ]_vars

\* C15 witness: a command of the one token "a|" has been constructed: the
\* shell is used and the command is the token itself, as a string
C15_Witness ==
    /\ pc = "keys" /\ shell = Some(TRUE)
    /\ args = String(<< 97, 124 >>)

----------------------------------------------------------------------------
(* The new pad while the output of a run is added to it.                   *)

\* newpad, new_w and cur_l after the first k lines of the tick's output
AfterLines(k) ==
    AddLines([np |-> Resize(newpad, new_h + Len(output) + 1, new_w + 1),
              w |-> new_w, l |-> cur_l],
             SubSeq(output, 1, k), new_h + Len(output), pad, DoDiff, c_diff, 1)

\* C16 as claimed: a line longer than the width of the new pad's content
\* makes the width at least twice what it was, and at least the length of
\* the line.
C16_WidthDoubles ==
    (pc = "body" /\ output # << >>) =>
        \A k \in 1..Len(output) :
            Len(output[k]) > AfterLines(k - 1).w
            => /\ AfterLines(k).w >= AfterLines(k - 1).w + AfterLines(k - 1).w
               /\ AfterLines(k).w >= Len(output[k])

\* C16 as amended: a line longer than the width makes the width the length
\* of the line (and the pad one column wider than that); a line that is not
\* longer leaves the width as it is.
C16_WidthIsLength ==
    (pc = "body" /\ output # << >>) =>
        \A k \in 1..Len(output) :
            IF Len(output[k]) > AfterLines(k - 1).w
            THEN /\ AfterLines(k).w = Len(output[k])
                 /\ PadW(AfterLines(k).np) = Len(output[k]) + 1
            ELSE /\ AfterLines(k).w = AfterLines(k - 1).w
                 /\ PadW(AfterLines(k).np) = PadW(AfterLines(k - 1).np)

\* C16 witness: a run of a line of length 2 followed by a line of length 3
\* is displayed, the content is 3 wide and the pad 4
C16_Witness ==
    /\ Len(outs) >= 1 /\ ~first_run
    /\ Len(LastOut) = 2 /\ Len(LastOut[1]) = 2 /\ Len(LastOut[2]) = 3
    /\ content_width = 3 /\ PadW(pad) = 4

----------------------------------------------------------------------------
(* The finish of a run.                                                    *)

\* C17 as claimed: the pads are switched and the sizes recalculated before
\* the bell and the exit, so when exit-on-error has ended the loop the
\* displayed pad is that of the failing run and is marked dirty.
C17_SwapBeforeExit ==
    ErrExited =>
        /\ content_height = OutH(LastOut) /\ content_width = OutW(LastOut)
        /\ RowsShow(pad, LastOut)
        /\ dirty

\* C17 as amended: at the finish of a run the bell comes first; if the run
\* has exited non-zero with exit-on-error set, the loop ends there, with
\* the pads not switched, the sizes not recalculated and dirty not set: the
\* displayed pad is still that of the run before (the empty pad if there
\* was none).  Otherwise the pads are switched, the sizes recalculated from
\* the new content and dirty is set.
C17_ExitBeforeSwap ==
    /\ [][ (pc = "body" /\ outs' # outs)
            => /\ beeps' = beeps + (IF beep /\ Val(rcode) # 0 THEN 1 ELSE 0)
               /\ IF Val(rcode) # 0 /\ errexit
                  THEN /\ pc' = "done"
                       /\ pad' = pad /\ dirty' = dirty
                       /\ content_height' = content_height
                       /\ content_width' = content_width
                       /\ bottom' = bottom /\ right' = right
                  ELSE /\ pc' = "draw"
                       /\ content_height' = OutH(outs'[Len(outs')])
                       /\ content_width' = OutW(outs'[Len(outs')])
                       /\ RowsShow(pad', outs'[Len(outs')])
                       /\ bottom' = content_height' - page_height'
                       /\ right' = content_width' - page_width'
                       /\ dirty' ]_vars
    /\ [](ErrExited =>
            IF Len(outs) = 1
            THEN content_height = 0 /\ content_width = 0 /\ pad = NewPad(1, 1)
            ELSE /\ content_height = OutH(PrevOut) /\ content_width = OutW(PrevOut)
                 /\ RowsShow(pad, PrevOut))

\* C17 witness: exit-on-error has ended the loop at the second run, which
\* wrote three lines; the bell has rung and the displayed pad still is the
\* one line of the first run
C17_Witness ==
    /\ ErrExited /\ beep /\ beeps = 1
    /\ Len(outs) = 2 /\ OutH(outs[1]) = 1 /\ OutH(outs[2]) = 3
    /\ content_height = 1 /\ PadH(pad) = 2

\* C18: in cumulative diff mode a cell that is highlighted in the displayed
\* pad is highlighted in the pad displayed after the next run too, if the
\* position is within that run's content (so a highlight, once there, is
\* in every later pad that has the position).
C18_HighlightKept ==
    [][ (differences /\ c_diff /\ pc = "body" /\ outs' # outs /\ pc' = "draw")
        => \A rc \in Highlighted(pad) :
             (rc[1] < content_height' /\ rc[2] < content_width')
             => rc \in Highlighted(pad') ]_vars

\* C19: a step of the loop that is not the finish of a run leaves the
\* displayed pad, content_height and content_width as they are and does not
\* lower new_h, new_w or cur_l; so while the output of a run in progress is
\* in the new pad, the displayed pad still is that of the last finished run
\* (the empty pad before the first).
C19_NoPartialOutput ==
    /\ [][ ~(pc = "body" /\ outs' # outs)
            => /\ pad' = pad
               /\ content_height' = content_height
               /\ content_width' = content_width
               /\ new_h' >= new_h /\ new_w' >= new_w /\ cur_l' >= cur_l ]_vars
    /\ []( (cur_out # << >> /\ pc \in {"draw", "keys", "cmd"})
            => /\ new_h = Len(cur_out)
               /\ IF Len(outs) = 0
                  THEN content_height = 0 /\ pad = NewPad(1, 1)
                  ELSE content_height = OutH(LastOut) /\ RowsShow(pad, LastOut) )

\* C19 witness: the three lines of the second run are in the new pad, the
\* child has not been seen to exit, and the displayed pad is the two lines
\* of the first run
C19_Witness ==
    /\ pc = "draw" /\ process /\ Len(outs) = 1
    /\ new_h = 3 /\ Len(cur_out) = 3
    /\ content_height = 2 /\ PadH(pad) = 3 /\ PadH(newpad) = 4

\* every cell of the pad holds the character of the lines at its position,
\* or a blank where they have none
ShowsOnly(p, lines) ==
    \A r \in 1..PadH(p) : \A c \in 1..PadW(p) :
        p[r][c].ch = CanvasChar(lines, r - 1, c - 1)

\* the new pad is empty when process_command is about to start a run
EmptyAtStart ==
    (pc = "cmd" /\ ~process /\ TimeToRun(now))
    => /\ new_h = 0 /\ new_w = 0 /\ cur_l = 0
       /\ newpad = Clear(newpad)

\* the displayed content is the output of the last finished run alone
ShowsLastRun ==
    /\ content_height = OutH(LastOut)
    /\ content_width = OutW(LastOut)
    /\ OutH(LastOut) > 0 => PadH(pad) = OutH(LastOut) + 1
    /\ ShowsOnly(pad, LastOut)

\* C20 as claimed: the new pad is empty when a run starts, and once a run
\* has finished and been handled the displayed content has the height of
\* that run's number of lines, the width of its longest line, and holds
\* nothing of an earlier run.
C20_ContentIsRun ==
    /\ EmptyAtStart
    /\ (Len(outs) >= 1 /\ Len(outs) = nfinished) => ShowsLastRun

\* C20 as amended: the same, except for the run whose non-zero exit ends
\* the loop under exit-on-error: that run is not displayed.
C20_ContentIsRunUnlessExit ==
    /\ EmptyAtStart
    /\ (Len(outs) >= 1 /\ Len(outs) = nfinished /\ ~ErrExited) => ShowsLastRun

\* C20 witness: a run of three lines was followed by a run of one line, the
\* content is one line high and the third run is about to start
C20_Witness ==
    /\ Len(outs) = 2 /\ OutH(outs[1]) = 3 /\ OutH(outs[2]) = 1
    /\ content_height = 1 /\ PadH(pad) = 2
    /\ pc = "cmd" /\ ~process /\ TimeToRun(now) /\ new_h = 0

----------------------------------------------------------------------------
(* The sizes and the keys.                                                 *)

\* the rows the header takes
HeaderRows == IF header THEN 2 ELSE 0

\* C21 as claimed: page_height is the terminal height less the rows of the
\* header and page_width the terminal width; right and bottom are the
\* content size less the page size, floored at 0, so content that is not
\* higher than the rows below the header has bottom = 0, and likewise for
\* the width and right.
C21_PageIsTerminal ==
    ~resize_key =>
    /\ page_height = term.h - HeaderRows
    /\ page_width = term.w
    /\ right = Max(content_width - page_width, 0)
    /\ bottom = Max(content_height - page_height, 0)
    /\ content_height <= term.h - HeaderRows => bottom = 0
    /\ content_width <= term.w => right = 0

\* C21 as amended: page_height is the terminal height less one less the
\* rows of the header, page_width the terminal width less one; right and
\* bottom are the content size less the page size and are negative for
\* content smaller than the page: the floor at 0 is that of the clamp of
\* the redraw.  After a redraw the view is at row 0 exactly if the content
\* is not higher than page_height, which is one row less than the rows
\* below the header.  (The terminal size is the one curses reports; the
\* sizes are compared with it except between a refresh that has taken a new
\* size and the KEY_RESIZE that follows it.)
C21_PageIsLastIndex ==
    ~resize_key =>
    /\ screen_height = term.h - 1
    /\ screen_width = term.w - 1
    /\ page_height = term.h - 1 - HeaderRows
    /\ page_width = term.w - 1
    /\ right = content_width - page_width
    /\ bottom = content_height - page_height
    /\ (pc = "keys" /\ content_height <= page_height) => y = 0
    /\ (pc = "keys" /\ content_width <= page_width) => x = 0

\* C21 witness: with the header, content of as many lines as there are rows
\* below the header has bottom = 1, and the view has been scrolled to it
C21_Witness ==
    /\ header /\ content_height = term.h - HeaderRows
    /\ bottom = 1 /\ pc = "keys" /\ y = 1

\* what a call of handle_keys never changes: the run in progress, the
\* schedule, the pads and the content size
KeysLeaveAlone ==
    /\ process' = process /\ child' = child /\ nchildren' = nchildren
    /\ next_run' = next_run /\ rcode' = rcode /\ output' = output
    /\ pad' = pad /\ newpad' = newpad
    /\ new_h' = new_h /\ new_w' = new_w /\ cur_l' = cur_l
    /\ content_height' = content_height /\ content_width' = content_width
    /\ nstarted' = nstarted /\ nfinished' = nfinished

\* the effect of a navigation key: the new offsets, the display dirty, the
\* sizes and everything else as before
Moves(newx, newy) ==
    /\ x' = newx /\ y' = newy /\ dirty'
    /\ UNCHANGED sizes
    /\ KeysLeaveAlone

\* C22: each navigation key moves the view along its own axis by its
\* amount, without clamping, and marks the display dirty: up and down by one
\* row, page up and down by page_height, home to row 0, end to bottom, left
\* and right by one column, block left and right by page_width; no key
\* touches the run, the schedule or the pads; with no key nothing changes
\* (nor with a key that is not handled).
C22_KeysMove ==
    [][ \A t \in TermSizes :
          /\ HandleKey("up", t)     => Moves(x, y - 1)
          /\ HandleKey("down", t)   => Moves(x, y + 1)
          /\ HandleKey("ppage", t)  => Moves(x, y - page_height)
          /\ HandleKey("npage", t)  => Moves(x, y + page_height)
          /\ HandleKey("home", t)   => Moves(x, 0)
          /\ HandleKey("end", t)    => Moves(x, bottom)
          /\ HandleKey("left", t)   => Moves(x - 1, y)
          /\ HandleKey("right", t)  => Moves(x + 1, y)
          /\ HandleKey("cleft", t)  => Moves(x - page_width, y)
          /\ HandleKey("cright", t) => Moves(x + page_width, y)
          /\ HandleKey("resize", t) => (x' = x /\ y' = y /\ dirty' /\ KeysLeaveAlone)
          /\ (HandleKey("none", t) \/ HandleKey("other", t))
                => /\ x' = x /\ y' = y /\ dirty' = dirty
                   /\ UNCHANGED sizes
                   /\ KeysLeaveAlone ]_vars

\* C22 witness: page up at the top of content higher than the page, during
\* a run: the view is page_height rows above the top, not yet clamped
C22_Witness ==
    /\ pc = "cmd" /\ dirty /\ process
    /\ page_height > 1 /\ y = 0 - page_height /\ x = 0
    /\ content_height > page_height

\* C23: a redraw succeeds and uses sizes that are those of the terminal as
\* curses reports it at the redraw and of the pad displayed (no stale
\* terminal size); a resize event, with or without a run in progress, takes
\* the terminal size into the sizes and marks the display dirty, and the
\* mark stays until the redraw of the same tick; no resize makes the
\* program fail.
C23_Recomputed ==
    /\ [][ (pc = "draw" /\ dirty /\ pc' # "draw" /\ (pc' = "keys" \/ winch' # winch))
            => /\ pc' = "keys" /\ ~dirty'
               /\ page_height' = term'.h - 1 - HeaderRows
               /\ page_width' = term'.w - 1
               /\ right' = content_width' - page_width'
               /\ bottom' = content_height' - page_height'
               /\ 0 <= x' /\ x' <= Max(right', 0)
               /\ 0 <= y' /\ y' <= Max(bottom', 0) ]_vars
    /\ [][ \A t \in TermSizes :
              HandleKey("resize", t) =>
                  /\ dirty'
                  /\ page_height' = t.h - 1 - HeaderRows /\ page_width' = t.w - 1
                  /\ right' = content_width - page_width'
                  /\ bottom' = content_height - page_height' ]_vars
    /\ [][ (dirty /\ pc \in {"cmd", "body"} /\ pc' # "done") => dirty' ]_vars
    /\ [](exit_code # Some(ErrorStatus))
\* C24: without an interrupt and without exit-on-error, with children that
\* exit and a clock that goes on, every run that has started finishes and
\* leaves the loop idle, and an idle loop whose next run is due within the
\* time and the number of runs looked at starts that run; in gap mode and
\* in precise mode.
C24_RunsForever ==
    /\ process ~> (~process /\ pc # "done")
    /\ (/\ ~process
        /\ nstarted < MaxRuns
        /\ (IsNone(next_run) \/ Val(next_run) <= MaxTime))
           ~> (process /\ pc # "done")
\* C25: a step that changes x, y, right or bottom leaves the dirty flag set,
\* unless it is the redraw itself; the dirty flag is cleared only by the
\* redraw, which leaves clamped offsets; so where an iteration of the loop
\* ends and the next begins the dirty flag is false and the offsets are
\* within [0, max(right, 0)] x [0, max(bottom, 0)].
C25_DirtyUntilClamped ==
    /\ [][ (x' # x \/ y' # y \/ right' # right \/ bottom' # bottom)
            => (dirty' \/ (pc = "draw" /\ dirty)) ]_vars
    /\ [][ (dirty /\ ~dirty')
            => /\ pc = "draw" /\ pc' = "keys"
               /\ x' = Max(Min(x, right), 0) /\ y' = Max(Min(y, bottom), 0)
               /\ right' = right /\ bottom' = bottom ]_vars
    /\ [](pc = "keys" => /\ ~dirty
                         /\ 0 <= x /\ x <= Max(right, 0)
                         /\ 0 <= y /\ y <= Max(bottom, 0))

\* C25 witness: a run has finished and swapped the pads, End has been
\* pressed, and the redraw has left the view at the bottom, not dirty
C25_Witness ==
    /\ pc = "keys" /\ ~dirty
    /\ nfinished = 1 /\ keys_left = MaxKeys - 1
    /\ bottom > 0 /\ y = bottom /\ x = 0
====
